---- MODULE Spec2Model ----
(***************************************************************************)
(* Request admission pipeline of the space_backend API: the sliding-window *)
(* rate limiter (middleware.RateLimiter), the membership cache             *)
(* (telegram.MembershipCache) and the gin middleware chain that composes   *)
(* them (router.SetupRouter).  Time is counted in whole seconds.           *)
(***************************************************************************)
EXTENDS Integers, Sequences, FiniteSets, TLC

(***************************************************************************)
(* Bounds of the exploration                                               *)
(***************************************************************************)
\* goroutines that call the limiter concurrently
NumCallers == 2
\* client addresses
NumKeys == 1
\* largest configured rate explored by the generic limiter specification
MaxRate == 2
\* Admit calls issued in one run of the generic limiter specification
MaxCalls == 4
\* instants observed after each epoch: e, e+1, .., e+Fine
Fine == 2
\* an instant inside the router's first window
Mid == 30
\* telegram users that send requests
NumIds == 1
\* largest ttl, in seconds, passed to Set by the cache specification
MaxTTL == 2
\* last instant observed by the cache specification
Horizon == 2
\* requests served in one run of the pipeline specification
MaxReqs == 2
\* bookings start and end at the instants 0..MaxSlot
MaxSlot == 2
\* the rows the bookings table holds at most
MaxBookings == 2

(***************************************************************************)
(* Program constants                                                       *)
(***************************************************************************)
\* cleanup(): now.Sub(visitor.lastSeen) > 10*time.Minute
CleanupIdle == 600
\* the zero time.Time of a Visitor literal that leaves blockTime out
ZeroTime == -1
\* SetupRouter: middleware.NewRateLimiter(100, 1*time.Minute)
RouterRate == 100
RouterWindow == 60
\* RequireChatMembership: GlobalCache.Set(telegramUserID, isMember, 5*time.Minute)
CacheTTL == 300
\* TelegramAuthMiddleware: SyncTelegramUser(12345, "devuser", "Dev", "User", "en")
DevUserID == 12345
\* ValidateInitData: now-authDate > 3600
AuthMaxAge == 3600
\* c.Get("user") before any c.Set("user", ..); a payload without a user field
NoUser == -1
\* a configured ALLOWED_CHAT_ID
ChatID == 1

Callers == 1..NumCallers
\* the goroutine of the specification that serves one request at a time
Client == 1
Keys == 1..NumKeys
Sweeper == 0

\* the windows the generic limiter specification is constructed with: a short
\* one and one longer than the sweep's fixed idle threshold
Windows == {1, CleanupIdle + 1}
Rates == 0..MaxRate
\* the one address all requests of that run come from
RouterKey == 1
\* the requests of one run against the router's limiter
RouterCalls == RouterRate + 2
\* the instants at which that run observes the clock: two inside the first
\* window, one right after it, one more than a window after the second
RouterInstants == {0, Mid, RouterWindow + 1, Mid + RouterWindow + 1}
\* the telegram ids of the users that send requests
TgIds == 1..NumIds
\* the user ids, the ttls and the instants of the cache specification
CacheIds == {1, 2}
TTLs == 1..MaxTTL
CacheInstants == 0..Horizon
\* the instants at which the clock is observed
Instants == {e + k : e \in {0, CleanupIdle}, k \in 0..Fine}

VARIABLES
  now,       \* time.Now(), in seconds
  rate,      \* RateLimiter.rate
  window,    \* RateLimiter.window
  visitors,  \* RateLimiter.visitors: ip -> Visitor
  rlMu,      \* RateLimiter.mu: the set of goroutines inside Lock()..Unlock()
  pc,        \* position of every goroutine
  ip,        \* c.ClientIP() of the request a goroutine serves
  loc,       \* allow()'s locals now / exists, read right after Lock()
  res,       \* the value allow() returned to the goroutine
  status,    \* the HTTP status written for the request (0: none yet)
  hist,      \* per key: the Admit calls since the key last had no stored state,
             \* each with its instant, its answer and the Visitor it left
  admits,    \* per key: the instants of every Admit that returned true
  calls,     \* number of Admit calls issued
  raced,     \* some goroutine took the lock while all others waited for it
  trail,     \* per key, a summary of the calls since the key last had no stored
             \* state: their number, the instant of the first, the instant of
             \* the one before the last, the instant and the answer of the last
  cache,     \* MembershipCache.data: userID -> CacheEntry
  lastSet,   \* per user id, the most recent Set: its verdict and expiry, and
             \* whether it replaced a live entry of the other verdict
  lastGet,   \* the most recent Get: its id, instant and answer, the entry it
             \* found stored and the most recent Set of the id before it
  cacheMu,   \* MembershipCache.mu: the holders, each with "R" or "W"
  environment,    \* cfg.Environment
  allowedChatID,  \* cfg.AllowedChatID
  users,     \* the users table: telegram id -> the stored profile fields
  spawned,   \* the telegram ids whose syncUserpicAsync goroutine was started
             \* and has not yet asked for the photo
  job,       \* per telegram id: the running SyncUserpic, its url and its copy
             \* of the row
  edit,      \* the running UpdateProfile or SyncFromTelegram: its call, its
             \* telegram id and its copy of the row
  req,       \* the request a goroutine serves: method, path, Origin header
  ctx,       \* gin.Context keys: the telegram id of "user" (NoUser: not set)
  hdr,       \* the response headers written so far
  steps,     \* per request: the protected operations performed for it
  verified,  \* per request: ValidateAndParseInitData returned a user for it
  tgID,      \* GetOrCreate's telegramID while the row is being created
  seen,      \* per request: what its membership step found in the cache, with
             \* the instant and the most recent completed check of the identity
  member,    \* RequireChatMembership's isMember after CheckUserInChat returned
  authType,  \* the protocol of the credential under validation
  authTTL,   \* the freshness window the caller configured for that protocol
  initData,  \* the credential handed to the validator
  original,  \* the credential before one of its fields was changed
  err,       \* the error the validator returned for initData ("": not called)
  identity,  \* the TelegramUser.ID validate-and-parse returned (NoUser: none)
  bookings,  \* the bookings table: id -> room, start, end, status
  bop        \* per goroutine, the booking call it is in: its position, the id
             \* of the booking and the row it is about to write

vars == <<now, rate, window, visitors, rlMu, pc, ip, loc, res, status,
          hist, admits, calls, raced, trail, cache, lastSet, lastGet, cacheMu,
          environment, allowedChatID, users, spawned, job, edit, req, ctx, hdr,
          steps, verified, tgID, seen, member,
          authType, authTTL, initData, original, err, identity,
          bookings, bop>>

(***************************************************************************)
(* RateLimiter                                                             *)
(***************************************************************************)
\* visitors[ip] = v
Put(vs, k, v) == [x \in (DOMAIN vs) \cup {k} |-> IF x = k THEN v ELSE vs[x]]

\* a new visitor whose first request is not counted
NewVisitorEmpty(t) ==
  [lastSeen |-> t, requests |-> <<>>, blocked |-> FALSE, blockTime |-> ZeroTime]

\* &Visitor{lastSeen: now, requests: []time.Time{now}, blocked: false}
NewVisitor(t) ==
  [lastSeen |-> t, requests |-> <<t>>, blocked |-> FALSE, blockTime |-> ZeroTime]

\* the loop that keeps the requests with now.Sub(reqTime) <= rl.window
ValidRequests(reqs, t, w) == SelectSeq(reqs, LAMBDA x : t - x <= w)

\* the limit test written with > in place of >=
LimitReachedStrict(n, r) == n > r

\* len(validRequests) >= rl.rate
LimitReached(n, r) == n >= r

\* the unblock test written with >= in place of >
BlockElapsedAtEdge(t, b, w) == t - b >= w

\* now.Sub(visitor.blockTime) > rl.window
BlockElapsed(t, b, w) == t - b > w

\* the blocking branch that forgets to record the block instant
BlockWithoutTime(v, t) == [v EXCEPT !.blocked = TRUE]

\* visitor.blocked = true; visitor.blockTime = now
Block(v, t) == [v EXCEPT !.blocked = TRUE, !.blockTime = t]

\* allow(ip), from the lookup result on: the value returned and the map after it
allow(vs, k, exists, t, r, w) ==
  IF ~exists
  THEN [ok |-> TRUE, visitors |-> Put(vs, k, NewVisitor(t))]
  ELSE LET v  == IF k \in DOMAIN vs THEN vs[k] ELSE NewVisitor(t)
           v1 == [v EXCEPT !.lastSeen = t]
       IN IF v.blocked
          THEN IF BlockElapsed(t, v.blockTime, w)
               THEN [ok |-> TRUE,
                     visitors |-> Put(vs, k, [v1 EXCEPT !.blocked = FALSE,
                                                         !.requests = <<t>>])]
               ELSE [ok |-> FALSE, visitors |-> Put(vs, k, v1)]
          ELSE LET valid == ValidRequests(v.requests, t, w)
               IN IF LimitReached(Len(valid), r)
                  THEN [ok |-> FALSE,
                        visitors |-> Put(vs, k, Block(v1, t))]
                  ELSE [ok |-> TRUE,
                        visitors |-> Put(vs, k, [v1 EXCEPT !.requests = Append(valid, t)])]

\* cleanup(): the map without the visitors idle for more than 10 minutes
cleanup(vs, t) ==
  LET keep == {k \in DOMAIN vs : ~(t - vs[k].lastSeen > CleanupIdle)}
  IN [k \in keep |-> vs[k]]

\* allow() taking rl.mu.RLock(): shared among requests, exclusive with the sweep
MuFreeShared(holders) == Sweeper \notin holders

\* rl.mu.Lock() succeeds only when nobody is inside the critical section
MuFree(holders) == holders = {}

(***************************************************************************)
(* MembershipCache                                                         *)
(***************************************************************************)
\* an expiry test that already fires at the expiry instant
ExpiredAtEdge(e, t) == t >= e.ExpiresAt

\* an expiry test that never fires
NeverExpired(e, t) == FALSE

\* time.Now().After(entry.ExpiresAt)
Expired(e, t) == t > e.ExpiresAt

\* Get(userID): (entry.IsMember, true) for a stored entry that has not expired,
\* (false, false) otherwise
Get(ch, id, t) ==
  IF id \notin DOMAIN ch \/ Expired(ch[id], t)
  THEN [isMember |-> FALSE, found |-> FALSE]
  ELSE [isMember |-> ch[id].IsMember, found |-> TRUE]

\* a Set that leaves a stored entry with a later expiry in place
SetKeepsLater(ch, id, v, ttl, t) ==
  IF id \in DOMAIN ch /\ ch[id].ExpiresAt > t + ttl
  THEN ch
  ELSE Put(ch, id, [IsMember |-> v, ExpiresAt |-> t + ttl])

\* Set(userID, isMember, ttl): c.data[userID] = CacheEntry{isMember, now + ttl}
Set(ch, id, v, ttl, t) == Put(ch, id, [IsMember |-> v, ExpiresAt |-> t + ttl])

\* a sweep that also deletes the entries expiring at this very instant
ClearAtEdge(ch, t) == [k \in {x \in DOMAIN ch : t < ch[x].ExpiresAt} |-> ch[k]]

\* Clear(): delete every entry with now.After(entry.ExpiresAt)
Clear(ch, t) == [k \in {x \in DOMAIN ch : ~Expired(ch[x], t)} |-> ch[k]]

NoEntry == [IsMember |-> FALSE, ExpiresAt |-> ZeroTime]
NoSet == [v |-> FALSE, exp |-> ZeroTime, over |-> FALSE]
NoGet == [id |-> 0, at |-> 0, isMember |-> FALSE, found |-> FALSE,
          had |-> FALSE, entry |-> NoEntry, set |-> NoSet]

\* GlobalCache = &MembershipCache{data: make(map[int64]CacheEntry)}
InitCacheState ==
  /\ cache = <<>>
  /\ lastSet = [i \in TgIds \cup CacheIds \cup {0, DevUserID} |-> NoSet]
  /\ lastGet = NoGet
  /\ cacheMu = {}

\* the record of a Set(id, v, ttl) made now
SetRecord(id, v, ttl) ==
  [v |-> v, exp |-> now + ttl,
   over |-> /\ id \in DOMAIN cache
            /\ cache[id].IsMember # v
            /\ cache[id].ExpiresAt > now + ttl]

\* a call of GlobalCache.Set(id, v, ttl), under c.mu.Lock()
CacheSet(id, v, ttl) ==
  /\ cache' = Set(cache, id, v, ttl, now)
  /\ lastSet' = [lastSet EXCEPT ![id] = SetRecord(id, v, ttl)]
  /\ UNCHANGED <<lastGet, cacheMu>>

\* what GlobalCache.Get(id) answers now, with the entry it finds stored and
\* the most recent Set of the id
GetRecord(id) ==
  [id |-> id, at |-> now,
   isMember |-> Get(cache, id, now).isMember,
   found |-> Get(cache, id, now).found,
   had |-> id \in DOMAIN cache,
   entry |-> IF id \in DOMAIN cache THEN cache[id] ELSE NoEntry,
   set |-> lastSet[id]]

\* a call of GlobalCache.Get(id), under c.mu.RLock()
CacheGet(id) ==
  /\ lastGet' = GetRecord(id)
  /\ UNCHANGED <<cache, lastSet, cacheMu>>

\* a call of GlobalCache.Clear(), under c.mu.Lock()
CacheClear ==
  /\ cache' = Clear(cache, now)
  /\ UNCHANGED <<lastSet, lastGet, cacheMu>>

NoLoc == [now |-> 0, exists |-> FALSE]

limVars == <<rate, window, visitors, rlMu>>
procVars == <<pc, ip, loc, res, status>>
ghostVars == <<hist, admits, calls, raced, trail>>
cacheData == <<cache, lastSet, lastGet>>
cacheVars == <<cacheData, cacheMu>>
cfgVars == <<environment, allowedChatID>>
verVars == <<authType, authTTL, initData, original, err, identity>>
reqVars == <<req, ctx, hdr, steps, verified, tgID, seen, member>>
bookVars == <<bookings, bop>>
bgVars == <<job, edit>>
dbVars == <<users, spawned, bgVars>>
pipeVars == <<cfgVars, verVars, bookVars, dbVars, reqVars>>

\* the telegram ids that can have a row in the users table
DbIds == TgIds \cup {DevUserID}

\* the profile fields of a row: one taken from the credential at creation and
\* open to edits, and the userpic
NoRow == [FirstName |-> "", Userpic |-> ""]

\* &models.User{TelegramID: .., FirstName: firstName, ..}: no Userpic yet
NewUser == [FirstName |-> "telegram", Userpic |-> ""]

\* no SyncUserpic running for an id; no UpdateProfile or SyncFromTelegram running
NoJob == [pc |-> "idle", url |-> "", copy |-> NoRow]
NoEdit == [pc |-> "idle", call |-> "", id |-> NoUser, copy |-> NoRow]

NoTrail == [n |-> 0, first |-> 0, prev |-> 0, at |-> 0, ok |-> FALSE]

InitProcs ==
  /\ rlMu = {}
  /\ pc = [p \in Callers \cup {Sweeper} |-> "idle"]
  /\ ip = [p \in Callers |-> 1]
  /\ loc = [p \in Callers |-> NoLoc]
  /\ res = [p \in Callers |-> FALSE]
  /\ status = [p \in Callers |-> 0]
  /\ hist = [k \in Keys |-> <<>>]
  /\ admits = [k \in Keys |-> <<>>]
  /\ calls = 0
  /\ raced = FALSE
  /\ trail = [k \in Keys |-> NoTrail]

\* visitors: make(map[string]*Visitor)
InitLimiterState ==
  /\ visitors = <<>>
  /\ InitProcs

NoReq == [method |-> "", path |-> "", origin |-> ""]

\* config.Load() without ENVIRONMENT and ALLOWED_CHAT_ID set
InitConfigDefault ==
  /\ environment = "development"
  /\ allowedChatID = 0

\* hash absent from the query string
NoHash == <<>>

\* no credential: the empty header value
NoCred == [raw |-> "", hash |-> NoHash, dated |-> FALSE, authDate |-> 0, user |-> -1]

\* no validator called outside a request
InitNoCredential ==
  /\ authType = ""
  /\ authTTL = 0
  /\ initData = NoCred
  /\ original = NoCred
  /\ err = ""
  /\ identity = NoUser

\* no background work and no profile edit under way
InitBgIdle ==
  /\ spawned = {}
  /\ job = [i \in DbIds |-> NoJob]
  /\ edit = NoEdit

\* no request in the engine
InitReqIdle ==
  /\ req = [c \in Callers |-> NoReq]
  /\ ctx = [c \in Callers |-> NoUser]
  /\ hdr = [c \in Callers |-> {}]
  /\ steps = [c \in Callers |-> {}]
  /\ verified = [c \in Callers |-> FALSE]
  /\ tgID = [c \in Callers |-> NoUser]
  /\ seen = [c \in Callers |-> NoGet]
  /\ member = [c \in Callers |-> FALSE]

\* no booking call under way
NoBooking == [room |-> 0, start |-> 0, end |-> 0, status |-> ""]
NoOp == [pc |-> "idle", id |-> 0, row |-> NoBooking, err |-> ""]

\* the bookings table empty
InitNoBookings ==
  /\ bookings = <<>>
  /\ bop = [c \in Callers |-> NoOp]

\* no request received yet, no user row yet
InitPipeIdle ==
  /\ InitNoBookings
  /\ users = <<>>
  /\ InitBgIdle
  /\ InitReqIdle
  /\ InitNoCredential

\* NewRateLimiter(rate, window)
Init ==
  /\ now = 0
  /\ rate \in Rates
  /\ window \in Windows
  /\ InitLimiterState
  /\ InitCacheState
  /\ InitConfigDefault
  /\ InitPipeIdle

\* a request from address k enters RateLimit(): ip := c.ClientIP()
CallAdmit(c, k, max) ==
  /\ pc[c] \in {"idle", "done"}
  /\ calls < max
  /\ pc' = [pc EXCEPT ![c] = "RateLimit"]
  /\ ip' = [ip EXCEPT ![c] = k]
  /\ loc' = [loc EXCEPT ![c] = NoLoc]
  /\ res' = [res EXCEPT ![c] = FALSE]
  /\ status' = [status EXCEPT ![c] = 0]
  /\ calls' = calls + 1
  /\ UNCHANGED <<now, limVars, hist, admits, raced, trail>>
  /\ UNCHANGED <<cacheVars, pipeVars>>

\* allow(): rl.mu.Lock(); now := time.Now(); visitor, exists := rl.visitors[ip]
AllowLock(c) ==
  /\ pc[c] = "RateLimit"
  /\ MuFree(rlMu)
  /\ rlMu' = rlMu \cup {c}
  /\ loc' = [loc EXCEPT ![c] = [now |-> now, exists |-> ip[c] \in DOMAIN visitors]]
  /\ raced' = (raced \/ (Callers # {c} /\ \A d \in Callers \ {c} :
                                            pc[d] = "RateLimit" /\ ip[d] = ip[c]))
  /\ pc' = [pc EXCEPT ![c] = "allow"]
  /\ UNCHANGED <<now, rate, window, visitors, ip, res, status, hist, admits, calls, trail>>
  /\ UNCHANGED <<cacheVars, pipeVars>>

\* allow(): the body after the lookup and the deferred rl.mu.Unlock()
AllowStep(c) ==
  /\ pc[c] = "allow"
  /\ LET a == allow(visitors, ip[c], loc[c].exists, loc[c].now, rate, window)
     IN /\ visitors' = a.visitors
        /\ res' = [res EXCEPT ![c] = a.ok]
  /\ rlMu' = rlMu \ {c}
  /\ loc' = [loc EXCEPT ![c] = NoLoc]
  /\ pc' = [pc EXCEPT ![c] = "allowed"]
  /\ UNCHANGED <<now, rate, window, ip, status, calls, raced>>
  /\ UNCHANGED <<cacheVars, pipeVars>>

\* allow() returns, every call being recorded
AllowBody(c) ==
  /\ AllowStep(c)
  /\ LET k == ip[c]
         t == loc[c].now
     IN /\ hist' = [hist EXCEPT ![k] = Append(@, [at |-> t, ok |-> res'[c],
                                                   v |-> visitors'[k]])]
        /\ admits' = [admits EXCEPT ![k] = IF res'[c] THEN Append(@, t) ELSE @]
  /\ UNCHANGED trail

\* allow() returns, the calls being summarised
AllowBodyTrail(c) ==
  /\ AllowStep(c)
  /\ LET k == ip[c]
         t == loc[c].now
         o == trail[k]
     IN trail' = [trail EXCEPT ![k] =
                    [n |-> o.n + 1, first |-> IF o.n = 0 THEN t ELSE o.first,
                     prev |-> IF o.n = 0 THEN t ELSE o.at, at |-> t, ok |-> res'[c]]]
  /\ UNCHANGED <<hist, admits>>

\* allow() returns inside the assembled pipeline
AllowReturn(c) ==
  /\ AllowStep(c)
  /\ UNCHANGED <<hist, admits, trail>>

\* RateLimit(): 429 and c.Abort() when allow() said no, c.Next() otherwise; the
\* chain holds no further handler here
RateLimitDone(c) ==
  /\ pc[c] = "allowed"
  /\ status' = [status EXCEPT ![c] = IF res[c] THEN 200 ELSE 429]
  /\ pc' = [pc EXCEPT ![c] = "done"]
  /\ UNCHANGED <<now, limVars, ip, loc, res, ghostVars>>
  /\ UNCHANGED <<cacheVars, pipeVars>>

\* cleanup(): rl.mu.Lock(), on a tick of cleanupLoop's ticker
CleanupLock ==
  /\ pc[Sweeper] = "idle"
  /\ MuFree(rlMu)
  /\ rlMu' = rlMu \cup {Sweeper}
  /\ pc' = [pc EXCEPT ![Sweeper] = "cleanup"]
  /\ UNCHANGED <<now, rate, window, visitors, ip, loc, res, status, ghostVars>>
  /\ UNCHANGED <<cacheVars, pipeVars>>

\* cleanup(): the loop over rl.visitors and the deferred rl.mu.Unlock()
CleanupBody ==
  /\ pc[Sweeper] = "cleanup"
  /\ visitors' = cleanup(visitors, now)
  /\ hist' = [k \in Keys |-> IF k \in DOMAIN visitors /\ k \notin DOMAIN visitors'
                             THEN <<>> ELSE hist[k]]
  /\ trail' = [k \in Keys |-> IF k \in DOMAIN visitors /\ k \notin DOMAIN visitors'
                              THEN NoTrail ELSE trail[k]]
  /\ rlMu' = rlMu \ {Sweeper}
  /\ pc' = [pc EXCEPT ![Sweeper] = "idle"]
  /\ UNCHANGED <<now, rate, window, ip, loc, res, status, admits, calls, raced>>
  /\ UNCHANGED <<cacheVars, pipeVars>>

\* the clock moves on to a later observed instant; a critical section of the
\* limiter does not block and reads the clock once, so no instant passes in it
Advance(instants) ==
  /\ rlMu = {}
  /\ \E t \in instants : t > now /\ now' = t
  /\ UNCHANGED <<limVars, procVars, ghostVars>>
  /\ UNCHANGED <<cacheVars, pipeVars>>

\* The limiter serving one request after the other: the calls, the idle sweep
\* and the clock in every order.
Next ==
  \/ \E k \in Keys : CallAdmit(Client, k, MaxCalls)
  \/ AllowLock(Client)
  \/ AllowBody(Client)
  \/ RateLimitDone(Client)
  \/ CleanupLock
  \/ CleanupBody
  \/ Advance(Instants)

Spec == Init /\ [][Next]_vars

\* The limiter serving NumCallers requests at once, one call each.
NextRace ==
  \/ \E c \in Callers, k \in Keys : CallAdmit(c, k, NumCallers)
  \/ \E c \in Callers : AllowLock(c)
  \/ \E c \in Callers : AllowBody(c)
  \/ \E c \in Callers : RateLimitDone(c)
  \/ CleanupLock
  \/ CleanupBody
  \/ Advance(Instants)

SpecRace == Init /\ [][NextRace]_vars

\* The limiter as SetupRouter constructs it, serving one request after the other.
InitRouter ==
  /\ now = 0
  /\ rate = RouterRate
  /\ window = RouterWindow
  /\ InitLimiterState
  /\ InitCacheState
  /\ InitConfigDefault
  /\ InitPipeIdle

NextRouter ==
  \/ CallAdmit(Client, RouterKey, RouterCalls)
  \/ AllowLock(Client)
  \/ AllowBodyTrail(Client)
  \/ RateLimitDone(Client)
  \/ CleanupLock
  \/ CleanupBody
  \/ Advance(RouterInstants)

SpecRouter == InitRouter /\ [][NextRouter]_vars

\* The membership cache under any interleaving of its calls and of the clock.
SetCall(id, v, ttl) ==
  /\ CacheSet(id, v, ttl)
  /\ UNCHANGED <<now, limVars, procVars, ghostVars, pipeVars>>

GetCall(id) ==
  /\ CacheGet(id)
  /\ UNCHANGED <<now, limVars, procVars, ghostVars, pipeVars>>

\* StartCleanupRoutine: c.Clear() on a tick of the ticker
ClearCall ==
  /\ CacheClear
  /\ UNCHANGED <<now, limVars, procVars, ghostVars, pipeVars>>

NextCache ==
  \/ \E id \in CacheIds, v \in BOOLEAN, ttl \in TTLs : SetCall(id, v, ttl)
  \/ \E id \in CacheIds : GetCall(id)
  \/ ClearCall
  \/ Advance(CacheInstants)

SpecCache == InitRouter /\ [][NextCache]_vars

(***************************************************************************)
(* The middleware chain of SetupRouter                                     *)
(***************************************************************************)
Methods == {"GET", "OPTIONS"}
HealthPath == "/health"
PublicPath == "/api/public/rooms"
ProtectedPath == "/api/users/me"
Paths == {HealthPath, PublicPath, ProtectedPath}
\* cfg.AllowedOrigins
AllowedOrigins == {"https://app"}
\* the Origin header: absent, an allowed origin, another one
Origins == {"", "https://app", "https://evil"}
\* the Referer header: absent, one that starts with an allowed origin, another
Referers == {"", "https://app/page", "https://evil/page"}
\* the X-Forwarded-Proto header
Protos == {"", "https", "http"}
\* cfg.TelegramBotToken, and a token that is not the bot's
BotToken == "bot token"
OtherToken == "other token"

\* the key of the field that carries the identity: the JSON object "user" of
\* a Mini App, the "id" of the Login Widget
IdentityKey(type) == IF type = "miniapp" THEN "user" ELSE "id"

\* the data-check-string: the pairs key=value of every field but hash, sorted
\* by key and joined by \n ("auth_date" sorts before "id" and "user")
DataCheckString(type, d) ==
  (IF d.dated THEN <<<<"auth_date", d.authDate>>>> ELSE <<>>)
  \o (IF d.user # -1 THEN <<<<IdentityKey(type), d.user>>>> ELSE <<>>)

\* hmac.New(sha256.New, key) over msg and sha256.Sum256(msg): distinct inputs
\* give distinct digests
HmacSHA256(key, msg) == <<"hmac", key, msg>>
Sum256(msg) == <<"sha256", "", msg>>

\* the secret key: HMAC of the token under "WebAppData" for the Mini App,
\* SHA256 of the token for the Login Widget
SecretKey(type, token) ==
  IF type = "miniapp" THEN HmacSHA256("WebAppData", token) ELSE Sum256(token)

\* hex.EncodeToString(calculatedHash.Sum(nil))
CalculatedHash(type, token, d) ==
  HmacSHA256(SecretKey(type, token), DataCheckString(type, d))

\* the query strings of one protocol: the hash absent, computed with the bot
\* token or with another one; auth_date absent or unparsable, or one of the
\* dates; the identity field absent or with a telegram id
Credentials(type, dates, ids) ==
  {[d EXCEPT !.hash = IF h = "" THEN NoHash
                      ELSE IF h = "signed" THEN CalculatedHash(type, BotToken, d)
                      ELSE CalculatedHash(type, OtherToken, d)] :
     h \in {"", "signed", "forged"},
     d \in [raw : {"query"}, hash : {NoHash}, dated : BOOLEAN, authDate : dates,
            user : {-1} \cup ids]}

\* the X-Telegram-Init-Data header at instant t: absent, the literal
\* dev_mode, or a query string with its hash (absent, the HMAC of the other
\* fields, anything else), its auth_date (absent or unparsable, or a number)
\* and its user field (absent, or a JSON object with this id)
InitDatas(t) ==
  {[raw |-> r, hash |-> NoHash, dated |-> FALSE, authDate |-> 0, user |-> NoUser] :
     r \in {"", "dev_mode"}}
  \cup Credentials("miniapp", {t - a : a \in {0, AuthMaxAge, AuthMaxAge + 1}}, TgIds)

\* what getChatMember answers: a member status, another status, ok = false,
\* or no answer (network error, timeout, undecodable body)
Answers == {"member", "left", "notOK", "error"}

\* ValidateInitData(initData, botToken), the bot token being cfg.TelegramBotToken
ValidateInitData(d, t) ==
  IF d.raw = "" THEN "initData is empty"
  ELSE IF d.hash = NoHash THEN "ErrMissingHash"
  ELSE IF ~d.dated THEN "ErrInvalidAuthDate"
  ELSE IF t - d.authDate > AuthMaxAge THEN "ErrAuthDateExpired"
  ELSE IF CalculatedHash("miniapp", BotToken, d) # d.hash THEN "ErrInvalidHash"
  ELSE "nil"

\* ValidateLoginWidget(initData, botToken, ttl)
ValidateLoginWidget(d, t, w) ==
  IF d.raw = "" THEN "initData is empty"
  ELSE IF d.hash = NoHash THEN "ErrMissingHash"
  ELSE IF ~d.dated THEN "ErrInvalidAuthDate"
  ELSE IF t - d.authDate > w THEN "ErrAuthDateExpired"
  ELSE IF CalculatedHash("loginwidget", BotToken, d) # d.hash THEN "ErrInvalidHash"
  ELSE "nil"

\* the user field holding a JSON object that has no "id" member
NoId == -2

\* json.Unmarshal into TelegramUser: ID stays 0 when the object has no "id"
UnmarshalID(user) == IF user = NoId THEN 0 ELSE user

\* ParseUserFromInitData(initData)
ParseUserFromInitData(d) ==
  IF d.user = NoUser THEN [err |-> "ErrMissingUserData", id |-> NoUser]
  ELSE [err |-> "nil", id |-> UnmarshalID(d.user)]

\* ParseUserFromLoginWidget(initData): an id that strconv.ParseInt accepts
ParseUserFromLoginWidget(d) ==
  IF d.user = NoUser THEN [err |-> "ErrMissingUserData", id |-> NoUser]
  ELSE [err |-> "nil", id |-> d.user]

\* ValidateAndParseLoginWidget(initData, botToken, ttl)
ValidateAndParseLoginWidget(d, t, w) ==
  IF ValidateLoginWidget(d, t, w) # "nil"
  THEN [err |-> ValidateLoginWidget(d, t, w), id |-> NoUser]
  ELSE ParseUserFromLoginWidget(d)

\* ValidateAndParseInitData(initData, botToken)
ValidateAndParseInitData(d, t) ==
  IF ValidateInitData(d, t) # "nil"
  THEN [err |-> ValidateInitData(d, t), id |-> NoUser]
  ELSE ParseUserFromInitData(d)

\* strings.HasPrefix(referer, domain), over the Referer values above
HasPrefix(referer, domain) == referer = domain \o "/page"

\* RefererCheck asking every header that is present to match
RefererPassesEach(m, p, referer, origin) ==
  \/ m = "OPTIONS"
  \/ p = HealthPath \/ p = PublicPath
  \/ \E domain \in AllowedOrigins :
       /\ referer = "" \/ HasPrefix(referer, domain)
       /\ origin = "" \/ origin = domain

\* RefererCheck: the request goes on to the next handler
RefererPasses(m, p, referer, origin) ==
  \/ m = "OPTIONS"
  \/ p = HealthPath \/ p = PublicPath
  \/ referer = "" /\ origin = ""
  \/ \E domain \in AllowedOrigins : HasPrefix(referer, domain) \/ origin = domain

\* the handlers gin runs after the engine's middleware for a path
Route(p) == IF p = ProtectedPath THEN "TelegramAuth" ELSE "Handler"

\* RateLimit() answering 429 and returning without c.Abort()
AfterRateLimitNoAbort(ok) == "SecurityLogger"

\* RateLimit(): c.Abort() and return when allow() said no, c.Next() otherwise
AfterRateLimit(ok) == IF ok THEN "SecurityLogger" ELSE "done"

\* the next handler of the chain runs
Goto(c, stage) ==
  /\ pc' = [pc EXCEPT ![c] = stage]
  /\ UNCHANGED status

\* c.JSON(code, ..) and c.Abort(): no later handler runs
Respond(c, code) ==
  /\ pc' = [pc EXCEPT ![c] = "done"]
  /\ status' = [status EXCEPT ![c] = code]

\* the engine accepts a request and starts its chain
Receive(c, k, m, p, o) ==
  /\ pc[c] \in {"idle", "done"}
  /\ calls < MaxReqs
  /\ calls' = calls + 1
  /\ pc' = [pc EXCEPT ![c] = "SecurityHeaders"]
  /\ ip' = [ip EXCEPT ![c] = k]
  /\ loc' = [loc EXCEPT ![c] = NoLoc]
  /\ res' = [res EXCEPT ![c] = FALSE]
  /\ status' = [status EXCEPT ![c] = 0]
  /\ req' = [req EXCEPT ![c] = [method |-> m, path |-> p, origin |-> o]]
  /\ ctx' = [ctx EXCEPT ![c] = NoUser]
  /\ hdr' = [hdr EXCEPT ![c] = {}]
  /\ steps' = [steps EXCEPT ![c] = {}]
  /\ verified' = [verified EXCEPT ![c] = FALSE]
  /\ tgID' = [tgID EXCEPT ![c] = NoUser]
  /\ seen' = [seen EXCEPT ![c] = NoGet]
  /\ member' = [member EXCEPT ![c] = FALSE]
  /\ UNCHANGED <<now, limVars, cacheVars, cfgVars, verVars, bookVars, dbVars, hist, admits, raced, trail>>

\* SecurityHeaders()
SecurityHeaders(c) ==
  /\ pc[c] = "SecurityHeaders"
  /\ hdr' = [hdr EXCEPT ![c] = @ \cup {"X-Content-Type-Options", "X-Frame-Options",
                                       "X-XSS-Protection", "Referrer-Policy",
                                       "Content-Security-Policy", "Permissions-Policy"}]
  /\ Goto(c, "HTTPSEnforcement")
  /\ UNCHANGED <<now, limVars, ip, loc, res, ghostVars, cacheVars, cfgVars, verVars, bookVars, dbVars,
                 req, ctx, steps, verified, tgID>>
  /\ UNCHANGED <<seen, member>>

\* HTTPSEnforcement(environment)
HTTPSEnforcement(c) ==
  /\ pc[c] = "HTTPSEnforcement"
  /\ \E proto \in Protos :
       IF environment = "production" /\ proto # "" /\ proto # "https"
       THEN Respond(c, 301) /\ UNCHANGED hdr
       ELSE /\ Goto(c, "CORS")
            /\ hdr' = [hdr EXCEPT ![c] = IF environment = "production"
                                         THEN @ \cup {"Strict-Transport-Security"}
                                         ELSE @]
  /\ UNCHANGED <<now, limVars, ip, loc, res, ghostVars, cacheVars, cfgVars, verVars, bookVars, dbVars,
                 req, ctx, steps, verified, tgID>>
  /\ UNCHANGED <<seen, member>>

\* CORS never taking the preflight branch
PreflightNever(m) == FALSE

\* CORS: c.Request.Method == "OPTIONS"
Preflight(m) == m = "OPTIONS"

\* CORS(allowedOrigins)
CORS(c) ==
  /\ pc[c] = "CORS"
  /\ hdr' = [hdr EXCEPT ![c] =
               @ \cup (IF req[c].origin \in AllowedOrigins
                       THEN {"Access-Control-Allow-Origin",
                             "Access-Control-Allow-Credentials"}
                       ELSE {})
                 \cup {"Access-Control-Allow-Headers", "Access-Control-Allow-Methods",
                       "Access-Control-Max-Age"}]
  /\ IF Preflight(req[c].method) THEN Respond(c, 204) ELSE Goto(c, "RateLimit")
  /\ UNCHANGED <<now, limVars, ip, loc, res, ghostVars, cacheVars, cfgVars, verVars, bookVars, dbVars,
                 req, ctx, steps, verified, tgID>>
  /\ UNCHANGED <<seen, member>>

\* RateLimit(), once allow() has returned
RateLimitNext(c) ==
  /\ pc[c] = "allowed"
  /\ pc' = [pc EXCEPT ![c] = AfterRateLimit(res[c])]
  /\ status' = [status EXCEPT ![c] = IF res[c] THEN @ ELSE 429]
  /\ UNCHANGED <<now, limVars, ip, loc, res, ghostVars, cacheVars, pipeVars>>

\* SecurityLogger(allowedOrigins): a log line at most
SecurityLogger(c) ==
  /\ pc[c] = "SecurityLogger"
  /\ Goto(c, "RefererCheck")
  /\ UNCHANGED <<now, limVars, ip, loc, res, ghostVars, cacheVars, pipeVars>>

\* c.GetHeader("Referer"): the header of the request, any value where the
\* request was received without one being fixed
RefererOf(c) ==
  IF "referer" \in DOMAIN req[c] THEN {req[c].referer} ELSE Referers

\* RefererCheck(allowedOrigins), then the route's own handlers
RefererCheck(c) ==
  /\ pc[c] = "RefererCheck"
  /\ \E referer \in RefererOf(c) :
       IF RefererPasses(req[c].method, req[c].path, referer, req[c].origin)
       THEN Goto(c, Route(req[c].path))
       ELSE Respond(c, 403)
  /\ UNCHANGED <<now, limVars, ip, loc, res, ghostVars, cacheVars, pipeVars>>

\* SyncTelegramUser: go s.syncUserpicAsync(telegramID), the bot token being set
StartSync(sp, id) == sp \cup {id}

\* SyncTelegramUser -> GetOrCreate: r.GetByTelegramID(telegramID) with the row
\* found, not found, or failing
Resolve(c, id, dbErr) ==
  /\ steps' = [steps EXCEPT ![c] = @ \cup {"identity"}]
  /\ IF dbErr
     THEN Respond(c, 500) /\ UNCHANGED <<ctx, tgID, spawned>>
     ELSE IF id \in DOMAIN users
          THEN /\ ctx' = [ctx EXCEPT ![c] = id]
               /\ spawned' = StartSync(spawned, id)
               /\ Goto(c, "RequireChatMembership")
               /\ UNCHANGED tgID
          ELSE /\ tgID' = [tgID EXCEPT ![c] = id]
               /\ Goto(c, "Create")
               /\ UNCHANGED <<ctx, spawned>>

\* TelegramAuthMiddleware(botToken, userService), up to GetOrCreate's lookup
TelegramAuth(c) ==
  /\ pc[c] = "TelegramAuth"
  /\ \E d \in InitDatas(now), dbErr \in BOOLEAN :
       IF d.raw = ""
       THEN Respond(c, 401) /\ UNCHANGED <<ctx, steps, verified, tgID, spawned>>
       ELSE IF d.raw = "dev_mode"
            THEN Resolve(c, DevUserID, dbErr) /\ UNCHANGED verified
            ELSE LET u == ValidateAndParseInitData(d, now) IN
                   IF u.err # "nil"
                   THEN /\ Respond(c, 401)
                        /\ steps' = [steps EXCEPT ![c] = @ \cup {"verify"}]
                        /\ UNCHANGED <<ctx, verified, tgID, spawned>>
                   ELSE /\ Resolve(c, u.id, dbErr)
                        /\ verified' = [verified EXCEPT ![c] = TRUE]
  /\ UNCHANGED <<now, limVars, ip, loc, res, ghostVars, cacheVars, cfgVars, verVars, bookVars, users,
                 bgVars, req, hdr>>
  /\ UNCHANGED <<seen, member>>

\* GetOrCreate: r.Create(user) under the unique index on telegram_id, then
\* c.Set("userID", user.ID), c.Set("user", user) and c.Next()
Create(c) ==
  /\ pc[c] = "Create"
  /\ \E dbErr \in BOOLEAN :
       IF dbErr \/ tgID[c] \in DOMAIN users
       THEN Respond(c, 500) /\ UNCHANGED <<users, spawned, ctx>>
       ELSE /\ users' = Put(users, tgID[c], NewUser)
            /\ spawned' = StartSync(spawned, tgID[c])
            /\ ctx' = [ctx EXCEPT ![c] = tgID[c]]
            /\ Goto(c, "RequireChatMembership")
  /\ UNCHANGED <<now, limVars, ip, loc, res, ghostVars, cacheVars, cfgVars, verVars, bookVars, bgVars,
                 req, hdr, steps, verified, tgID>>
  /\ UNCHANGED <<seen, member>>

\* a membership step that runs whatever the configured group
GroupRequiredAlways(chatID) == TRUE

\* RequireChatMembership: if allowedChatID == 0 the check is not made
GroupRequired(chatID) == chatID # 0

\* a test that rejects nobody
DeniedNever(isMember) == FALSE

\* RequireChatMembership: if !isMember, on the cached and on the fresh verdict
Denied(isMember) == ~isMember

\* RequireChatMembership(botToken, allowedChatID, environment), up to the call
\* of CheckUserInChat
CheckMembership(c) ==
  /\ IF ~GroupRequired(allowedChatID)
     THEN /\ IF environment # "production" THEN Goto(c, "Handler") ELSE Respond(c, 500)
          /\ UNCHANGED <<cacheData, steps>>
     ELSE IF ctx[c] = NoUser
          THEN Respond(c, 401) /\ UNCHANGED <<cacheData, steps>>
          ELSE /\ UNCHANGED cacheData
               /\ seen' = [seen EXCEPT ![c] = GetRecord(ctx[c])]
               /\ steps' = [steps EXCEPT ![c] = @ \cup {"cacheGet"}]
               /\ LET g == Get(cache, ctx[c], now) IN
                    IF g.found
                    THEN IF Denied(g.isMember) THEN Respond(c, 403) ELSE Goto(c, "Handler")
                    ELSE Goto(c, "CheckUserInChat")
  /\ ~GroupRequired(allowedChatID) \/ ctx[c] = NoUser => UNCHANGED seen
  /\ UNCHANGED <<now, limVars, ip, loc, res, ghostVars, cfgVars, verVars, bookVars, dbVars,
                 req, ctx, hdr, verified, tgID, member>>

\* RequireChatMembership(botToken, allowedChatID, environment), with the call
\* of GlobalCache.Get as one step
RequireChatMembership(c) ==
  /\ pc[c] = "RequireChatMembership"
  /\ CheckMembership(c)
  /\ UNCHANGED cacheMu

\* CheckUserInChat(userID, chatID, botToken): (false, nil) when the answer
\* has ok = false, the status being an allowed one otherwise
IsMemberOf(answer) == answer = "member"

\* a policy that lets the request through in every environment
FailOpen(env) == FALSE

\* RequireChatMembership on an error of CheckUserInChat:
\* if environment == "production" the request is answered 500 and aborted
FailClosed(env) == env = "production"

\* a verdict that is kept one second longer than the 5 minutes
StoreLonger(ch, id, v, t) == Set(ch, id, v, CacheTTL + 1, t)

\* a verdict that is used without being written to the cache
StoreNothing(ch, id, v, t) == ch

\* telegram.GlobalCache.Set(telegramUserID, isMember, 5*time.Minute)
StoreVerdict(ch, id, v, t) == Set(ch, id, v, CacheTTL, t)

\* a failed check stored as the verdict "not a member"
AnsweredCachingError(c, answer) ==
  /\ cache' = StoreVerdict(cache, ctx[c], IsMemberOf(answer), now)
  /\ lastSet' = [lastSet EXCEPT ![ctx[c]] =
                   SetRecord(ctx[c], IsMemberOf(answer), CacheTTL)]
  /\ UNCHANGED lastGet
  /\ member' = [member EXCEPT ![c] = IsMemberOf(answer)]
  /\ IF answer = "error"
     THEN /\ IF FailClosed(environment) THEN Respond(c, 500) ELSE Goto(c, "Handler")
          /\ steps' = [steps EXCEPT ![c] = @ \cup {"check"}]
     ELSE /\ steps' = [steps EXCEPT ![c] = @ \cup {"check", "verdict", "cacheSet"}]
          /\ Goto(c, "Decide")
  /\ UNCHANGED <<now, limVars, ip, loc, res, ghostVars, cfgVars, verVars, bookVars, dbVars,
                 req, ctx, hdr, verified, tgID, seen>>

\* RequireChatMembership, from the return of CheckUserInChat to the write of
\* its verdict to the cache, for one answer of getChatMember
Answered(c, answer) ==
  /\ IF answer = "error"
     THEN /\ IF FailClosed(environment) THEN Respond(c, 500) ELSE Goto(c, "Handler")
          /\ steps' = [steps EXCEPT ![c] = @ \cup {"check"}]
          /\ UNCHANGED <<cacheData, member>>
     ELSE /\ cache' = StoreVerdict(cache, ctx[c], IsMemberOf(answer), now)
          /\ lastSet' = [lastSet EXCEPT ![ctx[c]] =
                           SetRecord(ctx[c], IsMemberOf(answer), CacheTTL)]
          /\ UNCHANGED lastGet
          /\ member' = [member EXCEPT ![c] = IsMemberOf(answer)]
          /\ steps' = [steps EXCEPT ![c] = @ \cup {"check", "verdict", "cacheSet"}]
          /\ Goto(c, "Decide")
  /\ UNCHANGED <<now, limVars, ip, loc, res, ghostVars, cfgVars, verVars, bookVars, dbVars,
                 req, ctx, hdr, verified, tgID, seen>>

\* the call of CheckUserInChat returns and, when it returned no error, its
\* verdict is written to the cache, as one step
CheckUserInChat(c) ==
  /\ pc[c] = "CheckUserInChat"
  /\ \E answer \in Answers : Answered(c, answer)
  /\ UNCHANGED cacheMu

\* RequireChatMembership, after the write: 403 for a non-member, c.Next()
\* for a member
Decide(c) ==
  /\ pc[c] = "Decide"
  /\ IF Denied(member[c]) THEN Respond(c, 403) ELSE Goto(c, "Handler")
  /\ UNCHANGED <<now, limVars, ip, loc, res, ghostVars, cacheVars, pipeVars>>

\* the route's handler answers
Handler(c) ==
  /\ pc[c] = "Handler"
  /\ steps' = [steps EXCEPT ![c] = @ \cup {"handler"}]
  /\ Respond(c, 200)
  /\ UNCHANGED <<now, limVars, ip, loc, res, ghostVars, cacheVars, cfgVars, verVars, bookVars, dbVars,
                 req, ctx, hdr, verified, tgID>>
  /\ UNCHANGED <<seen, member>>

\* the state a client's 101st request within the first second leaves
BlockedVisitor ==
  [lastSeen |-> 0, requests |-> [i \in 1..RouterRate |-> 0],
   blocked |-> TRUE, blockTime |-> 0]

\* the instants at which the pipeline observes the clock: the start, one past
\* the limiter's window, one past the ttl of a verdict cached at the start
PipeInstants == {0, RouterWindow + 1, CacheTTL + 1}

\* SetupRouter(cfg, ..) in either environment, with and without a required
\* group, the client being new or already at its limit
InitPipeline ==
  /\ now = 0
  /\ rate = RouterRate
  /\ window = RouterWindow
  /\ visitors \in {<<>>, [k \in {RouterKey} |-> BlockedVisitor]}
  /\ InitProcs
  /\ InitCacheState
  /\ environment \in {"production", "development"}
  /\ allowedChatID \in {0, ChatID}
  /\ InitPipeIdle

\* The assembled pipeline serving one request after the other, with the two
\* background sweeps and the clock.
NextPipeline ==
  \/ \E m \in Methods, p \in Paths, o \in Origins : Receive(Client, RouterKey, m, p, o)
  \/ SecurityHeaders(Client)
  \/ HTTPSEnforcement(Client)
  \/ CORS(Client)
  \/ AllowLock(Client)
  \/ AllowReturn(Client)
  \/ RateLimitNext(Client)
  \/ SecurityLogger(Client)
  \/ RefererCheck(Client)
  \/ TelegramAuth(Client)
  \/ Create(Client)
  \/ RequireChatMembership(Client)
  \/ CheckUserInChat(Client)
  \/ Decide(Client)
  \/ Handler(Client)
  \/ CleanupLock
  \/ CleanupBody
  \/ ClearCall
  \/ Advance(PipeInstants)

SpecPipeline == InitPipeline /\ [][NextPipeline]_vars

(***************************************************************************)
(* The Referer/Origin policy on requests with given headers                *)
(***************************************************************************)
\* a request with its method, path, Origin and Referer
Requests ==
  [method : Methods, path : Paths, origin : Origins, referer : Referers]

\* a request that passed the rate limiter, about to enter SecurityLogger
InitReferer ==
  /\ now = 0
  /\ rate = RouterRate
  /\ window = RouterWindow
  /\ visitors = <<>>
  /\ InitProcs
  /\ InitCacheState
  /\ environment \in {"production", "development"}
  /\ allowedChatID = ChatID
  /\ users = <<>>
  /\ InitBgIdle
  /\ InitNoCredential
  /\ InitNoBookings
  /\ InitReqIdle

\* the request reaches SecurityLogger
Arrive(c, r) ==
  /\ pc[c] = "idle"
  /\ pc' = [pc EXCEPT ![c] = "SecurityLogger"]
  /\ req' = [req EXCEPT ![c] = r]
  /\ UNCHANGED <<now, limVars, ip, loc, res, status, ghostVars, cacheVars, cfgVars,
                 verVars, bookVars, dbVars, ctx, hdr, steps, verified, tgID, seen, member>>

NextReferer ==
  \/ \E r \in Requests : Arrive(Client, r)
  \/ SecurityLogger(Client)
  \/ RefererCheck(Client)

SpecReferer == InitReferer /\ [][NextReferer]_vars

\* a request whose credential resolved to the user id reaches the protected
\* group's RequireChatMembership: "user" is set in its context
Enter(c, id) ==
  /\ pc[c] \in {"idle", "done"}
  /\ calls < NumCallers
  /\ calls' = calls + 1
  /\ pc' = [pc EXCEPT ![c] = "RequireChatMembership"]
  /\ status' = [status EXCEPT ![c] = 0]
  /\ req' = [req EXCEPT ![c] = [method |-> "GET", path |-> ProtectedPath, origin |-> ""]]
  /\ ctx' = [ctx EXCEPT ![c] = id]
  /\ steps' = [steps EXCEPT ![c] = {"verify", "identity"}]
  /\ verified' = [verified EXCEPT ![c] = TRUE]
  /\ seen' = [seen EXCEPT ![c] = NoGet]
  /\ member' = [member EXCEPT ![c] = FALSE]
  /\ UNCHANGED <<now, limVars, ip, loc, res, cacheVars, cfgVars, verVars, bookVars, dbVars, hdr, tgID,
                 hist, admits, raced, trail>>

\* the instants at which the membership step observes the clock: the start,
\* the last instant of a verdict cached at the start, and the one after it
MemberInstants == {0, CacheTTL, CacheTTL + 1}

\* cfg.Environment: ENVIRONMENT, "development" when unset
Environments == {"production", "development", "staging"}

InitMember ==
  /\ now = 0
  /\ rate = RouterRate
  /\ window = RouterWindow
  /\ InitLimiterState
  /\ InitCacheState
  /\ environment \in Environments
  /\ allowedChatID \in {0, ChatID}
  /\ InitPipeIdle

\* The membership step of concurrent requests of verified users, with the
\* cache sweep and the clock.
NextMember ==
  \/ \E c \in Callers, id \in CacheIds : Enter(c, id)
  \/ \E c \in Callers : RequireChatMembership(c)
  \/ \E c \in Callers : CheckUserInChat(c)
  \/ \E c \in Callers : Decide(c)
  \/ \E c \in Callers : Handler(c)
  \/ ClearCall
  \/ Advance(MemberInstants)

SpecMember == InitMember /\ [][NextMember]_vars

(***************************************************************************)
(* The limiter's lock and the cache's lock in concurrent requests          *)
(***************************************************************************)
\* the goroutine of StartCleanupRoutine
Cleaner == NumCallers + 1

\* the goroutines inside a critical section of MembershipCache.mu
Holders(mu) == {h[1] : h \in mu}

\* c.mu.RLock() returns while no writer is inside
RLockFree(mu) == \A h \in mu : h[2] = "R"

\* c.mu.Lock() returns while nobody is inside
LockFree(mu) == mu = {}

\* a critical section that is never left
UnlockNever(mu, p) == mu

\* defer c.mu.RUnlock(), defer c.mu.Unlock()
Unlock(mu, p) == {h \in mu : h[1] # p}

\* RequireChatMembership reaches telegram.GlobalCache.Get
GetCalled(c) == GroupRequired(allowedChatID) /\ ctx[c] # NoUser

\* the request passed RateLimit and the handlers up to TelegramAuthMiddleware,
\* which set "user" to the row of telegram id `id`
Resolved(c, id) ==
  /\ pc[c] = "SecurityLogger"
  /\ pc' = [pc EXCEPT ![c] = "RequireChatMembership"]
  /\ ctx' = [ctx EXCEPT ![c] = id]
  /\ steps' = [steps EXCEPT ![c] = {}]
  /\ verified' = [verified EXCEPT ![c] = TRUE]
  /\ seen' = [seen EXCEPT ![c] = NoGet]
  /\ member' = [member EXCEPT ![c] = FALSE]
  /\ UNCHANGED <<now, limVars, ip, loc, res, status, ghostVars, cacheVars, cfgVars,
                 verVars, bookVars, dbVars, req, hdr, tgID>>

\* Get: c.mu.RLock()
GetRLock(c) ==
  /\ pc[c] = "RequireChatMembership"
  /\ GetCalled(c)
  /\ RLockFree(cacheMu)
  /\ cacheMu' = cacheMu \cup {<<c, "R">>}
  /\ pc' = [pc EXCEPT ![c] = "Get"]
  /\ UNCHANGED <<now, limVars, ip, loc, res, status, ghostVars, cacheData, pipeVars>>

\* Get: the lookup and the deferred c.mu.RUnlock(), then RequireChatMembership
\* up to the call of CheckUserInChat
GetBody(c) ==
  /\ pc[c] = "Get"
  /\ CheckMembership(c)
  /\ cacheMu' = Unlock(cacheMu, c)

\* RequireChatMembership returning before it reaches the cache
SkipGet(c) ==
  /\ pc[c] = "RequireChatMembership"
  /\ ~GetCalled(c)
  /\ CheckMembership(c)
  /\ UNCHANGED cacheMu

\* CheckUserInChat returned an error: no call of Set
CheckFails(c) ==
  /\ pc[c] = "CheckUserInChat"
  /\ Answered(c, "error")
  /\ UNCHANGED cacheMu

\* CheckUserInChat returned a verdict; Set: c.mu.Lock()
SetLock(c) ==
  /\ pc[c] = "CheckUserInChat"
  /\ LockFree(cacheMu)
  /\ cacheMu' = cacheMu \cup {<<c, "W">>}
  /\ pc' = [pc EXCEPT ![c] = "Set"]
  /\ UNCHANGED <<now, limVars, ip, loc, res, status, ghostVars, cacheData, pipeVars>>

\* Set: the write of the verdict and the deferred c.mu.Unlock()
SetBody(c) ==
  /\ pc[c] = "Set"
  /\ \E answer \in Answers \ {"error"} : Answered(c, answer)
  /\ cacheMu' = Unlock(cacheMu, c)

\* Clear: c.mu.Lock(), on a tick of StartCleanupRoutine's ticker
ClearLock ==
  /\ Cleaner \notin Holders(cacheMu)
  /\ LockFree(cacheMu)
  /\ cacheMu' = cacheMu \cup {<<Cleaner, "W">>}
  /\ UNCHANGED <<now, limVars, procVars, ghostVars, cacheData, pipeVars>>

\* Clear: the loop over c.data and the deferred c.mu.Unlock()
ClearBody ==
  /\ Cleaner \in Holders(cacheMu)
  /\ cache' = Clear(cache, now)
  /\ cacheMu' = Unlock(cacheMu, Cleaner)
  /\ UNCHANGED <<now, limVars, procVars, ghostVars, lastSet, lastGet, pipeVars>>

\* the steps of the requests and of the two sweeps that are under way
StepLocks ==
  \/ \E c \in Callers : AllowLock(c)
  \/ \E c \in Callers : AllowReturn(c)
  \/ \E c \in Callers : RateLimitNext(c)
  \/ \E c \in Callers, id \in TgIds : Resolved(c, id)
  \/ \E c \in Callers : GetRLock(c)
  \/ \E c \in Callers : GetBody(c)
  \/ \E c \in Callers : SkipGet(c)
  \/ \E c \in Callers : CheckFails(c)
  \/ \E c \in Callers : SetLock(c)
  \/ \E c \in Callers : SetBody(c)
  \/ \E c \in Callers : Decide(c)
  \/ \E c \in Callers : Handler(c)
  \/ CleanupBody
  \/ ClearBody

\* Concurrent requests through RateLimit and RequireChatMembership, one per
\* goroutine, with the limiter's sweep and the cache's sweep, all within one
\* observed instant.
NextLocks ==
  \/ \E c \in Callers : CallAdmit(c, RouterKey, NumCallers)
  \/ StepLocks
  \/ CleanupLock
  \/ ClearLock

\* SetupRouter(cfg, ..) in either environment, with and without a required
\* group, no request received yet
InitLocks ==
  /\ now = 0
  /\ rate = RouterRate
  /\ window = RouterWindow
  /\ InitLimiterState
  /\ InitCacheState
  /\ environment \in {"production", "development"}
  /\ allowedChatID \in {0, ChatID}
  /\ InitPipeIdle

SpecLocks == InitLocks /\ [][NextLocks]_vars

(***************************************************************************)
(* Identity resolution, the userpic goroutine and profile edits            *)
(***************************************************************************)

\* a request reaches the protected group's TelegramAuthMiddleware
EnterAuth(c) ==
  /\ pc[c] \in {"idle", "done"}
  /\ calls < MaxReqs
  /\ calls' = calls + 1
  /\ pc' = [pc EXCEPT ![c] = "TelegramAuth"]
  /\ status' = [status EXCEPT ![c] = 0]
  /\ req' = [req EXCEPT ![c] = [method |-> "GET", path |-> ProtectedPath, origin |-> ""]]
  /\ ctx' = [ctx EXCEPT ![c] = NoUser]
  /\ steps' = [steps EXCEPT ![c] = {}]
  /\ verified' = [verified EXCEPT ![c] = FALSE]
  /\ tgID' = [tgID EXCEPT ![c] = NoUser]
  /\ seen' = [seen EXCEPT ![c] = NoGet]
  /\ member' = [member EXCEPT ![c] = FALSE]
  /\ UNCHANGED <<now, limVars, ip, loc, res, cacheVars, cfgVars, verVars, bookVars, dbVars, hdr,
                 hist, admits, raced, trail>>

\* what GetUserProfilePhotoURL returns: an error, no photo, or the photo's url
PhotoAnswers == {"error", "", "telegram.jpg"}

\* what an UpdateProfileRequest carries in first_name
EditNames == {"edited"}

\* the state a background or an edit step leaves alone
frontVars == <<now, limVars, procVars, ghostVars, cacheVars, cfgVars, verVars, bookVars, reqVars>>

\* syncUserpicAsync(telegramID): GetUserProfilePhotoURL, and SyncUserpic when
\* it returned a url
SyncUserpicAsync(id) ==
  /\ id \in spawned
  /\ job[id].pc = "idle"
  /\ spawned' = spawned \ {id}
  /\ \E url \in PhotoAnswers :
       IF url \in {"error", ""}
       THEN UNCHANGED job
       ELSE job' = [job EXCEPT ![id] = [pc |-> "SyncUserpic", url |-> url,
                                        copy |-> NoRow]]
  /\ UNCHANGED <<users, edit, frontVars>>

\* SyncUserpic(telegramID, userpicURL): GetByTelegramID reads the row; the
\* copy gets the url when it differs
SyncUserpic(id) ==
  /\ job[id].pc = "SyncUserpic"
  /\ IF id \notin DOMAIN users \/ users[id].Userpic = job[id].url
     THEN job' = [job EXCEPT ![id] = NoJob]
     ELSE job' = [job EXCEPT ![id] =
                    [pc |-> "Update", url |-> @.url,
                     copy |-> [users[id] EXCEPT !.Userpic = job[id].url]]]
  /\ UNCHANGED <<users, spawned, edit, frontVars>>

\* r.db.Save(user): every field of the row is written from the copy
Save(us, id, row) == [us EXCEPT ![id] = row]

\* SyncUserpic: return r.Update(user)
SyncUserpicUpdate(id) ==
  /\ job[id].pc = "Update"
  /\ \E dbErr \in BOOLEAN :
       users' = IF dbErr THEN users ELSE Save(users, id, job[id].copy)
  /\ job' = [job EXCEPT ![id] = NoJob]
  /\ UNCHANGED <<spawned, edit, frontVars>>

\* UpdateProfile(userID, req) with req.FirstName set: GetByID reads the row and
\* the copy gets the name
UpdateProfile(id, name) ==
  /\ edit.pc = "idle"
  /\ id \in DOMAIN users
  /\ edit' = [pc |-> "Update", call |-> "UpdateProfile", id |-> id,
              copy |-> [users[id] EXCEPT !.FirstName = name]]
  /\ UNCHANGED <<users, spawned, job, frontVars>>

\* SyncFromTelegram(telegramID, .., firstName, ..): GetByTelegramID reads the
\* row; the copy gets the credential's name when it differs
SyncFromTelegram(id) ==
  /\ edit.pc = "idle"
  /\ id \in DOMAIN users
  /\ IF users[id].FirstName # NewUser.FirstName
     THEN edit' = [pc |-> "Update", call |-> "SyncFromTelegram", id |-> id,
                   copy |-> [users[id] EXCEPT !.FirstName = NewUser.FirstName]]
     ELSE UNCHANGED edit
  /\ UNCHANGED <<users, spawned, job, frontVars>>

\* UpdateProfile and SyncFromTelegram: r.Update(user)
EditUpdate ==
  /\ edit.pc = "Update"
  /\ \E dbErr \in BOOLEAN :
       users' = IF dbErr THEN users ELSE Save(users, edit.id, edit.copy)
  /\ edit' = NoEdit
  /\ UNCHANGED <<spawned, job, frontVars>>

\* the row a telegram user has before the requests: a name and a userpic of
\* their own
StoredRows == [FirstName : {"stored"}, Userpic : {"stored.jpg"}]

\* a development deployment without a required group whose users table has a
\* row for every telegram user
InitIdentity ==
  /\ now = 0
  /\ rate = RouterRate
  /\ window = RouterWindow
  /\ InitLimiterState
  /\ InitCacheState
  /\ environment = "development"
  /\ allowedChatID = 0
  /\ users \in [TgIds -> StoredRows]
  /\ InitBgIdle
  /\ InitNoBookings
  /\ InitReqIdle
  /\ InitNoCredential

\* Requests through the protected group, the userpic goroutines they start,
\* and profile edits and explicit syncs beside them.
NextIdentity ==
  \/ EnterAuth(Client)
  \/ TelegramAuth(Client)
  \/ Create(Client)
  \/ RequireChatMembership(Client)
  \/ Handler(Client)
  \/ \E id \in DbIds : SyncUserpicAsync(id)
  \/ \E id \in DbIds : SyncUserpic(id)
  \/ \E id \in DbIds : SyncUserpicUpdate(id)
  \/ \E id \in DbIds, name \in EditNames : UpdateProfile(id, name)
  \/ \E id \in DbIds : SyncFromTelegram(id)
  \/ EditUpdate

SpecIdentity == InitIdentity /\ [][NextIdentity]_vars

\* a deployment whose users table is empty
InitCreate ==
  /\ now = 0
  /\ rate = RouterRate
  /\ window = RouterWindow
  /\ InitLimiterState
  /\ InitCacheState
  /\ environment = "production"
  /\ allowedChatID = ChatID
  /\ InitPipeIdle

\* Concurrent requests through TelegramAuthMiddleware, each up to the return
\* of SyncTelegramUser.
NextCreate ==
  \/ \E c \in Callers : EnterAuth(c)
  \/ \E c \in Callers : TelegramAuth(c)
  \/ \E c \in Callers : Create(c)

SpecCreate == InitCreate /\ [][NextCreate]_vars

(***************************************************************************)
(* Bookings: CreateBooking, UpdateBooking and CancelBooking                *)
(***************************************************************************)
\* the rooms, all of them active, and the instants of bookings
RoomIds == {1, 2}
Slots == 0..MaxSlot

\* the WHERE clause of the conflict query: room_id = ? AND status != cancelled
\* AND start_time < end AND end_time > start
Intersects(b, room, start, end) ==
  /\ b.room = room
  /\ b.status # "cancelled"
  /\ b.start < end
  /\ b.end > start

\* GetConflictingBookings(roomID, start, end, excludeBookingID): the rows of
\* the range-intersection query, exclude = 0 standing for nil
GetConflictingBookings(bs, room, start, end, exclude) ==
  {i \in DOMAIN bs : Intersects(bs[i], room, start, end) /\ i # exclude}

\* CheckConflict(roomID, start, end, excludeBookingID): count > 0
CheckConflict(bs, room, start, end, exclude) ==
  GetConflictingBookings(bs, room, start, end, exclude) # {}

\* Booking.BeforeCreate, Booking.BeforeUpdate: !b.EndTime.After(b.StartTime)
\* gives gorm.ErrInvalidData
HookAccepts(b) == b.end > b.start

\* the state a booking call leaves alone
nonBookVars == <<now, limVars, procVars, ghostVars, cacheVars, cfgVars, verVars,
                 dbVars, reqVars>>

\* the call returns an error before it wrote anything
Fails(c, e) == bop' = [bop EXCEPT ![c] = [NoOp EXCEPT !.err = e]]

\* CreateBooking(creatorID, req), up to the conflict query
CreateBooking(c, room, start, end) ==
  /\ bop[c].pc = "idle"
  /\ Len(bookings) < MaxBookings
  /\ IF ~(end > start) THEN Fails(c, "ErrInvalidTime")
     ELSE IF start < now THEN Fails(c, "ErrPastBooking")
     ELSE IF GetConflictingBookings(bookings, room, start, end, 0) # {}
          THEN Fails(c, "BookingConflictError")
          ELSE bop' = [bop EXCEPT ![c] =
                         [pc |-> "Create", id |-> 0, err |-> "",
                          row |-> [room |-> room, start |-> start, end |-> end,
                                   status |-> "confirmed"]]]
  /\ UNCHANGED <<bookings, nonBookVars>>

\* CreateBooking: s.bookingRepo.Create(booking)
CreateInsert(c) ==
  /\ bop[c].pc = "Create"
  /\ IF HookAccepts(bop[c].row)
     THEN /\ bookings' = Append(bookings, bop[c].row)
          /\ bop' = [bop EXCEPT ![c] = NoOp]
     ELSE Fails(c, "ErrInvalidData") /\ UNCHANGED bookings
  /\ UNCHANGED nonBookVars

\* UpdateBooking(bookingID, userID, req) by the creator: GetByID, the fields
\* of the request and the validation of the times
UpdateBooking(c, id, start, end) ==
  /\ bop[c].pc = "idle"
  /\ id \in DOMAIN bookings
  /\ IF ~(end > start) THEN Fails(c, "ErrInvalidTime")
     ELSE bop' = [bop EXCEPT ![c] =
                    [pc |-> "UpdateCheck", id |-> id, err |-> "",
                     row |-> [bookings[id] EXCEPT !.start = start, !.end = end]]]
  /\ UNCHANGED <<bookings, nonBookVars>>

\* UpdateBooking: the conflict query without the booking itself
UpdateCheck(c) ==
  /\ bop[c].pc = "UpdateCheck"
  /\ IF GetConflictingBookings(bookings, bop[c].row.room, bop[c].row.start,
                               bop[c].row.end, bop[c].id) # {}
     THEN Fails(c, "BookingConflictError")
     ELSE bop' = [bop EXCEPT ![c].pc = "Update"]
  /\ UNCHANGED <<bookings, nonBookVars>>

\* UpdateBooking: s.bookingRepo.Update(booking), db.Save of the loaded row
UpdateSave(c) ==
  /\ bop[c].pc = "Update"
  /\ IF HookAccepts(bop[c].row)
     THEN /\ bookings' = [bookings EXCEPT ![bop[c].id] = bop[c].row]
          /\ bop' = [bop EXCEPT ![c] = NoOp]
     ELSE Fails(c, "ErrInvalidData") /\ UNCHANGED bookings
  /\ UNCHANGED nonBookVars

\* CancelBooking(bookingID, userID) by the creator: GetByID
CancelBooking(c, id) ==
  /\ bop[c].pc = "idle"
  /\ id \in DOMAIN bookings
  /\ bop' = [bop EXCEPT ![c] = [NoOp EXCEPT !.pc = "Cancel", !.id = id]]
  /\ UNCHANGED <<bookings, nonBookVars>>

\* CancelBooking: s.bookingRepo.Cancel(bookingID), UPDATE status
Cancel(c) ==
  /\ bop[c].pc = "Cancel"
  /\ bookings' = [bookings EXCEPT ![bop[c].id].status = "cancelled"]
  /\ bop' = [bop EXCEPT ![c] = NoOp]
  /\ UNCHANGED nonBookVars

\* Concurrent booking calls of admitted requests.
NextBooking ==
  \/ \E c \in Callers, room \in RoomIds, start \in Slots, end \in Slots :
       CreateBooking(c, room, start, end)
  \/ \E c \in Callers : CreateInsert(c)
  \/ \E c \in Callers, id \in 1..MaxBookings, start \in Slots, end \in Slots :
       UpdateBooking(c, id, start, end)
  \/ \E c \in Callers : UpdateCheck(c)
  \/ \E c \in Callers : UpdateSave(c)
  \/ \E c \in Callers, id \in 1..MaxBookings : CancelBooking(c, id)
  \/ \E c \in Callers : Cancel(c)

SpecBooking == InitCreate /\ [][NextBooking]_vars

(***************************************************************************)
(* Rate limiter properties                                                 *)
(***************************************************************************)
\* number of calls of h that returned true
Admitted(h) == Cardinality({i \in 1..Len(h) : h[i].ok})

\* every call of h was made within one window of the first
InOneWindow(h) == \A i \in 1..Len(h) : h[i].at - h[1].at <= window

\* C1: when N >= R Admit calls (R >= 1) hit a key that had no stored state,
\* all within one window, exactly R of them are admitted and N - R are
\* denied, whatever the order in which the callers take the lock.
C1_ExactlyRateAdmitted ==
  \A k \in Keys :
    (rate >= 1 /\ Len(hist[k]) >= rate /\ InOneWindow(hist[k]))
      => Admitted(hist[k]) = rate

\* C1 witness: every goroutine made one call, all were waiting for the lock at
\* the same time and, the rate being below their number, the last was denied.
C1_Witness ==
  \E k \in Keys :
    /\ raced /\ calls = NumCallers /\ Len(hist[k]) = NumCallers
    /\ rate >= 1 /\ rate < NumCallers /\ InOneWindow(hist[k])
    /\ Admitted(hist[k]) = rate /\ ~hist[k][NumCallers].ok

Blocks(h, i) == h[i].v.blocked /\ (i = 1 \/ ~h[i - 1].v.blocked)

StoredWithinRate ==
  \A k \in DOMAIN visitors :
    ~visitors[k].blocked
      => Len(ValidRequests(visitors[k].requests, now, window)) <= rate

\* C4 as stated: the stored timestamps within the window of an unblocked
\* client number at most `rate`, for every configured rate >= 0.
C4_StoredWithinRate == rate >= 0 => StoredWithinRate

\* C4 amended: the stored timestamps within the window of an unblocked client
\* number at most `rate`, for every configured rate >= 1.
C4_StoredWithinPositiveRate == rate >= 1 => StoredWithinRate

\* C4 witness: a client that was blocked has just been unblocked and stores
\* the one timestamp of the unblocking request, with a rate of at least 1.
C4_Witness ==
  \E k \in DOMAIN visitors :
    LET h == hist[k] IN
      /\ rate >= 1 /\ Len(h) >= 2
      /\ h[Len(h) - 1].v.blocked /\ h[Len(h)].ok
      /\ ~visitors[k].blocked
      /\ Len(ValidRequests(visitors[k].requests, now, window)) = 1

\* C5: for every key and every instant t, at most `rate` Admit calls for the
\* key returned true in the window ending at t, for any window length and
\* with idle sweeps interleaved (stated here for the rates of at least 1).
C5_TrailingWindowBound ==
  rate >= 1 =>
    \A k \in Keys : \A i \in 1..Len(admits[k]) :
      Cardinality({j \in 1..i : admits[k][i] - admits[k][j] <= window}) <= rate

\* the first 101 requests of the router's client came within 60 seconds, and
\* the 101st was denied with 429
Router101Denied(o) ==
  (o.n = RouterRate + 1 /\ o.at - o.first <= RouterWindow)
    => /\ ~o.ok
       /\ pc[Client] = "done" => status[Client] = 429

C9_NoExpiredHit ==
  (lastGet.id # 0 /\ lastGet.had /\ lastGet.entry.ExpiresAt < lastGet.at)
    => (~lastGet.found /\ ~lastGet.isMember)

\* C9 witness: a Get found a stored entry with verdict true that had expired
\* (Clear had not removed it) and answered (false, false).
C9_Witness ==
  /\ lastGet.id # 0 /\ lastGet.had /\ lastGet.entry.IsMember
  /\ lastGet.entry.ExpiresAt < lastGet.at
  /\ ~lastGet.found /\ ~lastGet.isMember

\* C10: a Get(id) made before the expiry of the most recent Set(id, v, ttl),
\* every ttl passed being positive, answers (v, true), whatever entry that
\* Set replaced.
C10_LastSetWins ==
  (lastGet.id # 0 /\ lastGet.set # NoSet /\ lastGet.at < lastGet.set.exp)
    => (lastGet.found /\ lastGet.isMember = lastGet.set.v)

\* C10 witness: the most recent Set replaced a live entry of the other verdict
\* and of later expiry, and a Get before the new expiry answered (v, true).
C10_Witness ==
  /\ lastGet.id # 0 /\ lastGet.set # NoSet /\ lastGet.set.over
  /\ lastGet.at < lastGet.set.exp
  /\ lastGet.found /\ lastGet.isMember = lastGet.set.v

\* what a Get answers in the same run without any sweep: the map then holds
\* the entry of the most recent Set of the id
NoSweepAnswer(g) ==
  IF g.set = NoSet
  THEN [isMember |-> FALSE, found |-> FALSE]
  ELSE Get([i \in {g.id} |-> [IsMember |-> g.set.v, ExpiresAt |-> g.set.exp]],
           g.id, g.at)

\* C11: Clear removes only entries whose expiry has passed, never an unexpired
\* one, and every Get answers as it would in the same run without sweeps.
C11_SweepsInvisible ==
  /\ \A id \in CacheIds :
       (lastSet[id] # NoSet /\ id \notin DOMAIN cache) => lastSet[id].exp < now
  /\ lastGet.id # 0
       => [isMember |-> lastGet.isMember, found |-> lastGet.found]
            = NoSweepAnswer(lastGet)

\* C11 witness: a Get for an id whose entry a sweep had removed answered
\* (false, false), while the entry of another id, not yet expired, is kept.
C11_Witness ==
  /\ lastGet.id # 0 /\ ~lastGet.had /\ lastGet.set # NoSet /\ ~lastGet.found
  /\ \E id \in DOMAIN cache : id # lastGet.id /\ cache[id].ExpiresAt >= now

(***************************************************************************)
(* Pipeline properties                                                     *)
(***************************************************************************)
\* C7: a request the rate limiter answered with 429 is finished at that step:
\* no credential verification, identity resolution, membership-cache access,
\* external membership call or handler has run or runs for it.
C7_DeniedIsTerminal ==
  \A c \in Callers : status[c] = 429 => (pc[c] = "done" /\ steps[c] = {})

\* C7 witness: a request to a protected route was answered with 429.
C7_Witness ==
  \E c \in Callers :
    /\ status[c] = 429 /\ pc[c] = "done" /\ ~res[c]
    /\ req[c].path = ProtectedPath /\ steps[c] = {}

\* C8: in every environment, every request for which identity resolution or
\* a protected handler has run carried a credential that the verifier
\* accepted; no header value skips the verification.
C8_VerifiedBeforeIdentity ==
  \A c \in Callers :
    (req[c].path = ProtectedPath /\ steps[c] \cap {"identity", "handler"} # {})
      => verified[c]

\* C12: once a check for an identity has completed and written its verdict,
\* every membership step of that identity that starts within the following
\* 5 minutes makes no external call and decides from the cached verdict.
C12_FreshVerdictNoCall ==
  \A c \in Callers :
    LET g == seen[c] IN
      (g.id # 0 /\ g.set # NoSet /\ g.at <= g.set.exp)
        => /\ g.found /\ g.isMember = g.set.v
           /\ "check" \notin steps[c]
           /\ pc[c] \notin {"CheckUserInChat", "Decide"}
           /\ IF g.set.v THEN pc[c] = "Handler" \/ status[c] = 200
                         ELSE status[c] = 403

\* C12 witness: a membership step started exactly 5 minutes after the check
\* that cached 'member', and the request was admitted without a call.
C12_Witness ==
  \E c \in Callers :
    LET g == seen[c] IN
      /\ g.id # 0 /\ g.set # NoSet /\ g.set.v /\ g.found
      /\ g.at = g.set.exp /\ g.at > 0
      /\ "check" \notin steps[c] /\ status[c] = 200

(***************************************************************************)
(* The two credential validators as functions of their arguments           *)
(***************************************************************************)

\* cfg.AuthDateTTLLoginWidget when AUTH_DATE_TTL_LOGIN_WIDGET is not set
LoginWidgetTTL == 604800

\* the windows a deployment configures: a minute, and the two defaults
AuthTTLs == {AuthMaxAge \div 60, AuthMaxAge, LoginWidgetTTL}

\* the auth_date values looked at: at each window's edge and one second older
AuthDates(t) == {t - a : a \in {0} \cup AuthTTLs \cup {w + 1 : w \in AuthTTLs}}

\* the validator of the protocol: ValidateInitData takes no window,
\* ValidateLoginWidget takes the caller's
ValidateAs(type, d, t, w) ==
  IF type = "miniapp" THEN ValidateInitData(d, t) ELSE ValidateLoginWidget(d, t, w)

\* validate-and-parse of the protocol
ValidateAndParseAs(type, d, t, w) ==
  IF type = "miniapp" THEN ValidateAndParseInitData(d, t)
  ELSE ValidateAndParseLoginWidget(d, t, w)

\* the identity fields looked at: a telegram id, the id 0 and, for the Mini
\* App, a user object without id
IdentityValues(type) == TgIds \cup {0} \cup (IF type = "miniapp" THEN {NoId} ELSE {})

\* the validator is called on the credential, then validate-and-parse
Validate ==
  /\ err = ""
  /\ err' = ValidateAs(authType, initData, now, authTTL)
  /\ identity' = ValidateAndParseAs(authType, initData, now, authTTL).id
  /\ UNCHANGED <<authType, authTTL, initData, original>>
  /\ UNCHANGED <<now, limVars, procVars, ghostVars, cacheVars, cfgVars, dbVars, reqVars,
                 bookVars>>

\* a credential the validator accepted comes back with the value of one field
\* other than hash changed, and is validated again with the same token
Revalidate ==
  /\ err = "nil"
  /\ original = NoCred
  /\ original' = initData
  /\ \E changed \in
          {[initData EXCEPT !.authDate = a] : a \in AuthDates(now) \ {initData.authDate}}
          \cup {[initData EXCEPT !.user = u] :
                  u \in (TgIds \cup {DevUserID}) \ {initData.user}} :
       /\ initData' = changed
       /\ err' = ValidateAs(authType, changed, now, authTTL)
       /\ identity' = ValidateAndParseAs(authType, changed, now, authTTL).id
  /\ UNCHANGED <<authType, authTTL>>
  /\ UNCHANGED <<now, limVars, procVars, ghostVars, cacheVars, cfgVars, dbVars, reqVars,
                 bookVars>>

\* every protocol, window and query string, at an instant later than the
\* longest window
InitVerify ==
  /\ now = LoginWidgetTTL + 1
  /\ rate = RouterRate
  /\ window = RouterWindow
  /\ InitLimiterState
  /\ InitCacheState
  /\ InitConfigDefault
  /\ users = <<>>
  /\ InitBgIdle
  /\ InitNoBookings
  /\ InitReqIdle
  /\ authType \in {"miniapp", "loginwidget"}
  /\ authTTL \in AuthTTLs
  /\ initData \in Credentials(authType, AuthDates(now), IdentityValues(authType))
  /\ original = NoCred
  /\ err = ""
  /\ identity = NoUser

NextVerify == Validate \/ Revalidate

SpecVerify == InitVerify /\ [][NextVerify]_vars

\* C13: on a miss for which the collaborator returns a verdict, that verdict
\* is written to the cache with a ttl of 5 minutes in the step in which it
\* arrives, the request being undecided then; admission and 403 on that path
\* come only afterwards.
C13_WriteBeforeDecision ==
  [][\A c \in Callers :
       /\ ("verdict" \notin steps[c] /\ "verdict" \in steps'[c])
            => /\ ctx[c] \in DOMAIN cache'
               /\ cache'[ctx[c]] = [IsMember |-> member'[c], ExpiresAt |-> now + 300]
               /\ status'[c] = 0 /\ pc'[c] = "Decide"
       /\ ("verdict" \in steps'[c] /\ pc'[c] # pc[c]
             /\ (status'[c] = 403 \/ pc'[c] = "Handler"))
            => pc[c] = "Decide"]_vars

\* C13 witness: a request that missed the cache was rejected with 403 on a
\* fresh verdict, and the cache holds that verdict.
C13_Witness ==
  \E c \in Callers :
    /\ "verdict" \in steps[c] /\ ~seen[c].found /\ status[c] = 403
    /\ ctx[c] \in DOMAIN cache /\ ~cache[ctx[c]].IsMember

\* C14: when the external check fails, the request is answered 500 and its
\* handler is not invoked in production, and it is admitted to the handler in
\* every other environment, whatever the identity, the cache and the instant.
C14_ErrorPolicyByEnvironment ==
  \A c \in Callers :
    ("check" \in steps[c] /\ "verdict" \notin steps[c])
      => IF environment = "production"
         THEN pc[c] = "done" /\ status[c] = 500 /\ "handler" \notin steps[c]
         ELSE \/ pc[c] = "Handler" /\ status[c] = 0
              \/ pc[c] = "done" /\ status[c] = 200 /\ "handler" \in steps[c]

\* C14 witness: in production a request whose external check failed was
\* answered 500.
C14_Witness ==
  \E c \in Callers :
    /\ "check" \in steps[c] /\ "verdict" \notin steps[c]
    /\ environment = "production" /\ status[c] = 500

\* C15: with a required group configured, a request whose membership verdict
\* is false, read from the cache or obtained from the external check, never
\* reaches the handler and ends with 403.
C15_NonMemberRejected ==
  \A c \in Callers :
    (/\ allowedChatID # 0
     /\ \/ seen[c].found /\ ~seen[c].isMember
        \/ "verdict" \in steps[c] /\ ~member[c])
      => /\ "handler" \notin steps[c]
         /\ pc[c] \in {"Decide", "done"}
         /\ pc[c] = "done" => status[c] = 403

\* C15 witness: a request answered 403 from a cached 'not a member' verdict.
C15_Witness ==
  \E c \in Callers :
    /\ allowedChatID # 0
    /\ seen[c].found /\ ~seen[c].isMember
    /\ pc[c] = "done" /\ status[c] = 403

\* C16 as stated: with a required group of zero the membership step makes no
\* cache lookup and no external call and the request proceeds to the next
\* step, in every environment.
C16_ZeroGroupProceeds ==
  [][\A c \in Callers :
       (allowedChatID = 0 /\ pc[c] = "RequireChatMembership" /\ pc'[c] # pc[c])
         => /\ UNCHANGED cacheVars
            /\ seen'[c] = seen[c] /\ steps'[c] = steps[c]
            /\ pc'[c] = "Handler" /\ status'[c] = 0]_vars

\* C16 amended: with a required group of zero the membership step makes no
\* cache lookup and no external call in any environment; the request proceeds
\* to the next step outside production and is answered 500 in production.
C16_ZeroGroupSkipsLookup ==
  [][\A c \in Callers :
       (allowedChatID = 0 /\ pc[c] = "RequireChatMembership" /\ pc'[c] # pc[c])
         => /\ UNCHANGED cacheVars
            /\ seen'[c] = seen[c] /\ steps'[c] = steps[c]
            /\ IF environment = "production"
               THEN pc'[c] = "done" /\ status'[c] = 500
               ELSE pc'[c] = "Handler" /\ status'[c] = 0]_vars

\* C16 witness: without a required group a request of a resolved user stands
\* at its handler, no cache lookup and no external check made.
C16_Witness ==
  \E c \in Callers :
    /\ allowedChatID = 0 /\ pc[c] = "Handler"
    /\ "identity" \in steps[c]
    /\ "cacheGet" \notin steps[c] /\ "check" \notin steps[c]

\* C17: a request admitted on a cached verdict at instant t has, for its
\* identity, an external check that returned 'member' at an instant s with
\* t - 300 <= s <= t, whatever the interleaving of requests and sweeps.
C17_CachedAdmissionBacked ==
  \A c \in Callers :
    (seen[c].found /\ seen[c].isMember)
      => /\ seen[c].id = ctx[c]
         /\ seen[c].set.v
         /\ seen[c].set.exp - CacheTTL <= seen[c].at
         /\ seen[c].at - (seen[c].set.exp - CacheTTL) <= 300

\* C17 witness: a request admitted from the cache exactly 5 minutes after the
\* check that returned 'member'.
C17_Witness ==
  \E c \in Callers :
    /\ seen[c].found /\ seen[c].isMember /\ "handler" \in steps[c]
    /\ seen[c].at = seen[c].set.exp /\ seen[c].at = 300

\* C18: for a user that has a row, no step changes a stored profile field
\* except the write of a profile edit or of the explicit sync: not the
\* admission of a request, and not the work it starts in the background.
C18_AdmissionKeepsProfile ==
  [][\A id \in TgIds :
       (id \in DOMAIN users /\ users'[id] # users[id])
         => /\ edit.pc = "Update" /\ edit.id = id /\ edit'.pc = "idle"
            /\ users'[id] = edit.copy]_vars

\* the credential carries the hash computed with the bot token over its fields
Signed(type, d) ==
  d.raw = "query" /\ d.dated /\ d.hash = CalculatedHash(type, BotToken, d)

\* C19: under either protocol and any configured window w, a correctly signed
\* credential of age w is accepted and one of age w + 1 is rejected as expired.
C19_WindowBoundary ==
  (err # "" /\ original = NoCred /\ Signed(authType, initData))
    => /\ now - initData.authDate = authTTL => err = "nil"
       /\ now - initData.authDate = authTTL + 1 => err = "ErrAuthDateExpired"

\* C20: a credential that was accepted and then had the value of one field
\* other than hash changed is rejected with the invalid-hash error.
C20_ChangedFieldInvalidHash ==
  original # NoCred => err = "ErrInvalidHash"

\* C21: the identity a successful validate-and-parse returns, under either
\* protocol, has a non-zero id.
C21_IdentityIdNonZero ==
  identity # NoUser => identity # 0

\* the stages of the chain up to and including CORS, and the end of the chain
BeforeRateLimit == {"SecurityHeaders", "HTTPSEnforcement", "CORS", "done"}

\* C22 as stated: every OPTIONS request is answered 204, whatever its Origin
\* and in every environment.
C22_OptionsAlways204 ==
  \A c \in Callers :
    req[c].method = "OPTIONS" /\ pc[c] = "done" => status[c] = 204

\* C22: an OPTIONS request never gets past CORS, so it reaches neither the
\* rate limiter nor credential verification nor a handler; CORS answers it
\* 204 whatever its Origin, and the only other answer is the 301 of the HTTPS
\* redirect that runs before CORS in production.
C22_OptionsShortCircuited ==
  \A c \in Callers :
    req[c].method = "OPTIONS" =>
      /\ pc[c] \in BeforeRateLimit
      /\ steps[c] = {}
      /\ ~verified[c]
      /\ pc[c] = "done" =>
            \/ status[c] = 204 /\ "Access-Control-Allow-Methods" \in hdr[c]
            \/ /\ status[c] = 301
               /\ environment = "production"
               /\ "Access-Control-Allow-Methods" \notin hdr[c]

\* an OPTIONS request with an Origin outside the allow-set answered 204 in
\* production
C22_Witness ==
  \E c \in Callers :
    /\ req[c].method = "OPTIONS"
    /\ req[c].origin = "https://evil"
    /\ environment = "production"
    /\ pc[c] = "done"
    /\ status[c] = 204

\* the request of c has left RefererCheck: its header policy has been applied
PolicyApplied(c) ==
  /\ "referer" \in DOMAIN req[c]
  /\ pc[c] \in {"TelegramAuth", "Handler", "done"}
  /\ req[c].method # "OPTIONS"
  /\ req[c].path = ProtectedPath

OriginMatches(c) == req[c].origin \in AllowedOrigins

RefererMatches(c) == \E domain \in AllowedOrigins : HasPrefix(req[c].referer, domain)

\* C23 as stated: the policy rejects with 403 whenever a header that is
\* present does not match.
C23_EachPresentHeaderMatches ==
  \A c \in Callers :
    PolicyApplied(c) =>
      /\ (req[c].origin # "" /\ ~OriginMatches(c)) => status[c] = 403
      /\ (req[c].referer # "" /\ ~RefererMatches(c)) => status[c] = 403
      /\ (req[c].origin = "" /\ req[c].referer = "") => status[c] # 403

\* C23: the policy rejects with 403 exactly when at least one of Referer and
\* Origin is present and neither matches: no allowed origin is a prefix of
\* the Referer and none equals the Origin. A request with neither header
\* passes.
C23_RejectedIffNoHeaderMatches ==
  \A c \in Callers :
    PolicyApplied(c) =>
      (status[c] = 403 /\ pc[c] = "done"
         <=> /\ req[c].origin # "" \/ req[c].referer # ""
             /\ ~OriginMatches(c)
             /\ ~RefererMatches(c))

\* a request without Origin whose Referer is outside the allow-set is
\* rejected
C23_Witness ==
  \E c \in Callers :
    /\ PolicyApplied(c)
    /\ req[c].origin = ""
    /\ req[c].referer = "https://evil/page"
    /\ status[c] = 403

\* C25: the idle sweep removes a client entry if and only if its last-seen
\* instant is more than 10 times the configured window in the past.
C25_SweepRemovesTenWindowsIdle ==
  [][pc[Sweeper] = "cleanup" /\ pc'[Sweeper] = "idle" =>
       \A k \in DOMAIN visitors :
         k \notin DOMAIN visitors' <=> now - visitors[k].lastSeen > 10 * window]_vars

\* the request of c, or a sweep, is under way
UnderWay ==
  \/ \E c \in Callers : pc[c] \notin {"idle", "done"}
  \/ rlMu # {}
  \/ cacheMu # {}

\* C24: nobody holds the cache's lock and the limiter's lock at the same
\* time; neither lock is held by a request whose external membership call is
\* in progress; and whenever a request or a sweep is under way, one of them
\* can take a step (no deadlock).
C24_LocksNeverNested ==
  /\ Holders(cacheMu) \cap rlMu = {}
  /\ \A c \in Callers :
       pc[c] = "CheckUserInChat" => c \notin rlMu /\ c \notin Holders(cacheMu)
  /\ UnderWay => ENABLED StepLocks

\* a request is in the external call while the limiter's lock and the
\* cache's lock are both held by others
C24_Witness ==
  /\ \E c \in Callers : pc[c] = "CheckUserInChat"
  /\ rlMu # {}
  /\ cacheMu # {}

\* the external check of c's request returns an error in this step
ErrorReturned(c) ==
  /\ pc[c] = "CheckUserInChat"
  /\ pc'[c] # "CheckUserInChat"
  /\ "verdict" \notin steps'[c]

\* C27: when the external membership check returns an error, the step leaves
\* the cache as it was, in every environment, so the admission of the
\* permissive environments is not cached; a lookup of that identity right
\* after it misses, unless another request has stored a verdict for the
\* identity since this request looked it up.
C27_ErrorLeavesCache ==
  [][\A c \in Callers :
       ErrorReturned(c) =>
         /\ cache' = cache
         /\ lastSet' = lastSet
         /\ \/ ~Get(cache', ctx[c], now').found
            \/ lastSet'[ctx[c]] # seen[c].set]_vars

\* outside production a request was admitted after its check failed, and the
\* cache holds nothing for its identity
C27_Witness ==
  \E c \in Callers :
    /\ "check" \in steps[c] /\ "verdict" \notin steps[c]
    /\ "handler" \in steps[c] /\ status[c] = 200
    /\ environment # "production"
    /\ ctx[c] \notin DOMAIN cache

\* the protected handler ran for the request of c
HandlerInvoked(c) == req[c].path = ProtectedPath /\ "handler" \in steps[c]

\* the request of c passed the membership step: no group is required, or the
\* verdict read from the cache or obtained from the check is positive, or the
\* check failed where the environment lets such a request through
MembershipPassed(c) ==
  \/ allowedChatID = 0 /\ environment # "production"
  \/ seen[c].found /\ seen[c].isMember
  \/ "verdict" \in steps[c] /\ member[c]
  \/ "check" \in steps[c] /\ "verdict" \notin steps[c] /\ environment # "production"

\* the request of c passed CORS, the rate limiter, identity resolution and
\* the membership step, and its context holds the resolved user
PassedOtherSteps(c) ==
  /\ "Access-Control-Allow-Methods" \in hdr[c]
  /\ res[c]
  /\ "identity" \in steps[c]
  /\ ctx[c] # NoUser /\ ctx[c] \in DOMAIN users
  /\ MembershipPassed(c)

\* C26: a protected handler is invoked only after the request passed CORS,
\* the rate limiter, the Referer/Origin policy, credential verification,
\* identity resolution and the membership check, its context then holding
\* the resolved user; a rejected request runs no later step.
C26_HandlerAfterEveryStep ==
  \A c \in Callers :
    /\ HandlerInvoked(c) => PassedOtherSteps(c) /\ verified[c]
    /\ (pc[c] = "done" /\ status[c] \notin {0, 200}) => "handler" \notin steps[c]

\* C30: a negative verdict is cached, and the request answered 403 for it,
\* only when the provider answered that the user is not in the group: the
\* step taken on a response with ok = false writes nothing to the cache and
\* does not lead to the 403 of a non-member.
C30_FailureNotStoredAsNonMember ==
  [][\A c \in Callers :
       (pc[c] = "CheckUserInChat" /\ Answered(c, "notOK"))
         => cache' = cache /\ pc'[c] # "Decide"]_vars

\* C28: of concurrent verified requests from one telegram id that had no row,
\* every one is resolved to the one row of that id: a request whose lookup
\* found no row, and whose insert comes after another request created the
\* row, still ends with that row in its context and not with an error.
C28_ConcurrentFirstRequestsResolve ==
  [][\A c \in Callers :
       (pc[c] = "Create" /\ pc'[c] # "Create" /\ tgID[c] \in DOMAIN users)
         => ctx'[c] = tgID[c] /\ status'[c] # 500]_vars

\* the stored bookings i and j are of one room, neither is cancelled, and
\* their intervals intersect
Overlap(i, j) ==
  /\ i # j
  /\ bookings[i].room = bookings[j].room
  /\ bookings[i].status # "cancelled" /\ bookings[j].status # "cancelled"
  /\ bookings[i].start < bookings[j].end
  /\ bookings[j].start < bookings[i].end

\* C29: after any interleaving of concurrent CreateBooking, UpdateBooking and
\* CancelBooking calls, no two non-cancelled bookings of the same room
\* overlap, and every stored booking ends after it starts.
C29_NoOverlapEndAfterStart ==
  /\ \A i \in DOMAIN bookings : \A j \in DOMAIN bookings : ~Overlap(i, j)
  /\ \A i \in DOMAIN bookings : bookings[i].end > bookings[i].start

====
